---- MODULE Spec2Model ----
(***************************************************************************)
(* A model of the ntfy-node message broker (src/index.ts): the live        *)
(* subscriber registry _sockets, the SQLite table "messages", the publish  *)
(* pipeline (_fetch -> _broadcast -> _save), the replay query engine       *)
(* (_query) and the expiry sweeper (_remove_expired).                      *)
(*                                                                         *)
(* Conventions.  Text that the code inspects character by character (the   *)
(* X-Priority header, the since selector, message ids) is a sequence of    *)
(* one-character strings.  Text that the code only copies or joins (topic  *)
(* names, message bodies) is a TLA+ string.  A JavaScript number is a      *)
(* record [nan, val] so that NaN has the comparisons JavaScript gives it.  *)
(* A value that may be absent (a header, a query parameter) is a record    *)
(* [set, value].                                                           *)
(***************************************************************************)
EXTENDS Integers, Sequences, FiniteSets, TLC

VARIABLES
    pc,           \* "boot" | "serving" | "crashed": position of the process
    now,          \* Math.floor(Date.now() / 1000)
    tableExists,  \* whether the table "messages" exists in the database file
    messages,     \* the rows of table "messages", in rowid (insertion) order
    _sockets,     \* Map<string, Set<WebSocket>>: topic -> set of handles
    conn,         \* per handle: its state "new" | "open" | "failed" | "errored" |
                  \* "closed", and the topic list of its request path
    received,     \* per handle: the sequence of events sent to it
    pending,      \* publish requests whose body is still being read
    accepted,     \* number of publish requests accepted so far
    last          \* outcome of the handler that ran most recently

vars == <<pc, now, tableExists, messages, _sockets, conn, received, pending, accepted, last>>

----------------------------------------------------------------------------
(* Optional values and JavaScript numbers *)

None == [set |-> FALSE, value |-> <<>>]

Some(s) == [set |-> TRUE, value |-> s]

NaN == [nan |-> TRUE, val |-> 0]

Num(n) == [nan |-> FALSE, val |-> n]

\* x || d on an optional string: undefined, null and "" are falsy
OrElse(x, d) == IF x.set /\ x.value # <<>> THEN x.value ELSE d

\* a < b and a > b on JavaScript numbers: every comparison with NaN is false
JsLt(a, b) == ~a.nan /\ ~b.nan /\ a.val < b.val

JsGt(a, b) == ~a.nan /\ ~b.nan /\ a.val > b.val

----------------------------------------------------------------------------
(* Characters *)

DigitChars == <<"0", "1", "2", "3", "4", "5", "6", "7", "8", "9">>

IsDigit(c) == \E i \in 1..Len(DigitChars) : DigitChars[i] = c

DigitVal(c) == (CHOOSE i \in 1..Len(DigitChars) : DigitChars[i] = c) - 1

IsSpace(c) == c = " "

\* the longest prefix of s made of digits
RECURSIVE DigitPrefix(_)
DigitPrefix(s) ==
    IF s = <<>> \/ ~IsDigit(Head(s)) THEN <<>>
    ELSE <<Head(s)>> \o DigitPrefix(Tail(s))

\* the value of a sequence of digits, base 10
RECURSIVE DecimalValue(_)
DecimalValue(ds) ==
    IF ds = <<>> THEN 0
    ELSE 10 * DecimalValue(SubSeq(ds, 1, Len(ds) - 1)) + DigitVal(ds[Len(ds)])

RECURSIVE TrimLeft(_)
TrimLeft(s) == IF s # <<>> /\ IsSpace(Head(s)) THEN TrimLeft(Tail(s)) ELSE s

\* parseInt(s, 10): leading white space is skipped, then an optional sign, then
\* the longest run of digits; NaN when that run is empty; what follows is ignored
parseInt(s) ==
    LET t == TrimLeft(s)
        neg == t # <<>> /\ Head(t) = "-"
        signed == t # <<>> /\ Head(t) \in {"-", "+"}
        ds == DigitPrefix(IF signed THEN Tail(t) ELSE t)
    IN  IF ds = <<>> THEN NaN
        ELSE Num(IF neg THEN 0 - DecimalValue(ds) ELSE DecimalValue(ds))

----------------------------------------------------------------------------
(* Message ids *)

\* the alphabet string indexed in getRandomId
Alphabet ==
    <<"0", "1", "2", "3", "4", "5", "6", "7", "8", "9",
      "A", "B", "C", "D", "E", "F", "G", "H", "I", "J", "K", "L", "M",
      "N", "O", "P", "Q", "R", "S", "T", "U", "V", "W", "X", "Y", "Z",
      "a", "b", "c", "d", "e", "f", "g", "h", "i", "j", "k", "l", "m",
      "n", "o", "p", "q", "r", "s", "t", "u", "v", "w", "x", "y", "z">>

\* the default of getRandomId's length parameter
IdLength == 12

\* getRandomId on the bytes randomBytes(length) returned: one alphabet symbol
\* per byte, the byte reduced modulo 62, then .slice(0, length)
getRandomId(bytes) ==
    SubSeq([i \in 1..Len(bytes) |-> Alphabet[(bytes[i] % 62) + 1]], 1, IdLength)

----------------------------------------------------------------------------
(* Bounds of the model: the inputs the actions draw from *)

\* the clock value at process start
T0 == 1000000000

\* at most this many publish requests are accepted in one behaviour
MaxPublishes == 2

\* at most this many publish requests have their body in flight at once
MaxPending == 1

\* the same, where the order in which bodies end is the subject
MaxReading == 2

Handles == {"h1", "h2"}

Topics == {"alerts", "ops"}

Bytes0 == [i \in 1..IdLength |-> 0]

Bytes62 == [i \in 1..IdLength |-> 62]

BytesDur == [i \in 1..IdLength |-> IF i = IdLength THEN 54 ELSE IF i = IdLength - 1 THEN 1 ELSE 0]

BytesA == [i \in 1..IdLength |-> 10]

----------------------------------------------------------------------------
(* The table "messages" *)

timeout == 12 * 3600

\* SQLite binds a JavaScript NaN as NULL, which "priority" INTEGER NOT NULL refuses
NotNullFails(item) == item.priority.nan

\* a table created without its UNIQUE and PRIMARY KEY constraints
UniqueNotEnforced(rows, item) == FALSE

\* "id" TEXT NOT NULL UNIQUE and PRIMARY KEY("id", "topic")
UniqueFails(rows, item) ==
    \E i \in 1..Len(rows) :
        \/ rows[i].id = item.id
        \/ (rows[i].id = item.id /\ rows[i].topic = item.topic)

InsertFails(rows, item) == NotNullFails(item) \/ UniqueFails(rows, item)

\* the row INSERT writes for an item (the item's event field is not a column)
RowOf(item) ==
    [id |-> item.id, time |-> item.time, expires |-> item.expires,
     topic |-> item.topic, priority |-> item.priority.val, message |-> item.message]

\* a DELETE that also takes the rows expiring at this very second
DeleteExpiredInclusive(rows, t) == SelectSeq(rows, LAMBDA r : ~(r.expires <= t))

\* DELETE FROM "messages" WHERE "expires" < ?
DeleteExpired(rows, t) == SelectSeq(rows, LAMBDA r : ~(r.expires < t))

\* white space around a numeric literal is ignored by SQLite's text-to-number conversion
RECURSIVE TrimRight(_)
TrimRight(s) ==
    IF s # <<>> /\ IsSpace(s[Len(s)]) THEN TrimRight(SubSeq(s, 1, Len(s) - 1)) ELSE s

\* whether NUMERIC affinity turns the text into an integer (over the characters
\* of the model: digits, letters, sign, space)
IsIntegerText(s) ==
    LET t == TrimRight(TrimLeft(s))
        u == IF t # <<>> /\ Head(t) \in {"-", "+"} THEN Tail(t) ELSE t
    IN  u # <<>> /\ DigitPrefix(u) = u

\* "time" >= ? with a TEXT parameter: the column's INTEGER affinity converts a
\* numeric text; any other text sorts after every integer
TimeGeText(time, s) ==
    IF IsIntegerText(s) THEN time >= parseInt(s).val ELSE FALSE

\* (SELECT "time" FROM "messages" WHERE "id" = ?): the time of the first row with
\* that id, NULL when there is none
TimeOfId(rows, id) ==
    LET hits == SelectSeq(rows, LAMBDA r : r.id = id)
    IN  IF hits = <<>> THEN None ELSE Some(hits[1].time)

\* the sequence, last element first
RECURSIVE Reversed(_)
Reversed(seq) == IF seq = <<>> THEN <<>> ELSE Append(Reversed(Tail(seq)), Head(seq))

\* a SELECT that walks the table from its newest row to its oldest
SelectTopicNewestFirst(rows, topic) == Reversed(SelectSeq(rows, LAMBDA r : r.topic = topic))

\* a SELECT that leaves out the rows whose expires has passed
SelectTopicUnexpired(rows, topic) ==
    SelectSeq(rows, LAMBDA r : r.topic = topic /\ r.expires >= now)

\* SELECT ... WHERE "topic" = ? (no ORDER BY: a scan of the table in rowid order,
\* no index starts with "topic" or "time")
SelectTopic(rows, topic) == SelectSeq(rows, LAMBDA r : r.topic = topic)

\* SELECT ... WHERE "topic" = ? AND "time" >= ? with a TEXT parameter
SelectSinceText(rows, topic, s) ==
    SelectSeq(rows, LAMBDA r : r.topic = topic /\ TimeGeText(r.time, s))

\* SELECT ... WHERE "topic" = ? AND time >= ? with an INTEGER parameter
SelectSinceTime(rows, topic, t) ==
    SelectSeq(rows, LAMBDA r : r.topic = topic /\ r.time >= t)

\* an id lookup that returns the rows after the referenced one only
SelectAfterId(rows, topic, id) ==
    LET t == TimeOfId(rows, id)
    IN  SelectSeq(rows, LAMBDA r : r.topic = topic /\ t.set /\ r.time > t.value)

\* SELECT ... WHERE "topic" = ? AND time >= (SELECT "time" ... WHERE "id" = ?):
\* a comparison with NULL is not true
SelectSinceId(rows, topic, id) ==
    LET t == TimeOfId(rows, id)
    IN  SelectSeq(rows, LAMBDA r : r.topic = topic /\ t.set /\ r.time >= t.value)

----------------------------------------------------------------------------
(* Wire records *)

\* a live event that always carries the priority
MessageEventWithPriority(id, time, topic, content, priority) ==
    [id |-> id, time |-> time, expires |-> time + timeout, event |-> "message",
     topic |-> topic, message |-> content, priority |-> priority.val]

\* the record sent to each subscriber of the topic (JSON.stringify drops nothing:
\* priority is spread in only when it is not 3)
MessageEvent(id, time, topic, content, priority) ==
    IF priority.val = 3
    THEN [id |-> id, time |-> time, expires |-> time + timeout, event |-> "message",
          topic |-> topic, message |-> content]
    ELSE [id |-> id, time |-> time, expires |-> time + timeout, event |-> "message",
          topic |-> topic, message |-> content, priority |-> priority.val]

\* the record the publisher is answered with
AckRecord(id, time, topic, content, priority) ==
    IF priority.val = 3
    THEN [id |-> id, time |-> time, expires |-> time + timeout, event |-> "message",
          topic |-> topic, message |-> content]
    ELSE [id |-> id, time |-> time, expires |-> time + timeout, event |-> "message",
          topic |-> topic, message |-> content, priority |-> priority.val]

\* one line of the replay response, built from a row the query returned
QueryRecord(row) ==
    IF row.priority = 3
    THEN [id |-> row.id, time |-> row.time, expires |-> row.expires, topic |-> row.topic,
          message |-> row.message, event |-> "message"]
    ELSE [id |-> row.id, time |-> row.time, expires |-> row.expires, topic |-> row.topic,
          message |-> row.message, priority |-> row.priority, event |-> "message"]

\* the "open" event of a new connection
OpenEvent(id, time, topics) ==
    [id |-> id, time |-> time, event |-> "open", topic |-> topics]

\* the body of the 400 answer to a priority outside 1..5
PriorityError ==
    [code |-> 40007, http |-> 400, error |-> "invalid priority parameter",
     link |-> "https://ntfy.sh/docs/publish/#message-priority"]

\* topics.join(",")
RECURSIVE Join(_)
Join(topics) ==
    IF Len(topics) = 1 THEN topics[1] ELSE topics[1] \o "," \o Join(Tail(topics))

----------------------------------------------------------------------------
(* The registry *)

\* _sockets.get(topic), the empty set when the topic is no key
Subscribers(topic) == IF topic \in DOMAIN _sockets THEN _sockets[topic] ELSE {}

\* a forEach that registers under the first topic of the list only
RegisterFirstOnly(map, topics, client) ==
    [t \in DOMAIN map \cup {topics[1]} |->
        IF t = topics[1] THEN (IF t \in DOMAIN map THEN map[t] ELSE {}) \cup {client}
        ELSE map[t]]

\* topics.forEach: create the set if absent, add the client
Register(map, topics, client) ==
    [t \in DOMAIN map \cup {topics[i] : i \in 1..Len(topics)} |->
        IF \E i \in 1..Len(topics) : topics[i] = t
        THEN (IF t \in DOMAIN map THEN map[t] ELSE {}) \cup {client}
        ELSE map[t]]

\* a _close that stops at the first set holding the client
UnregisterFirstOnly(map, client) ==
    IF \A t \in DOMAIN map : client \notin map[t] THEN map
    ELSE LET first == CHOOSE t \in DOMAIN map : client \in map[t]
         IN  [t \in {u \in DOMAIN map : u # first \/ map[u] # {client}} |->
                 IF t = first THEN map[t] \ {client} ELSE map[t]]

\* a _close that deletes the client and keeps the sets it leaves empty
UnregisterKeepEmpty(map, client) == [t \in DOMAIN map |-> map[t] \ {client}]

\* a _close that is never reached
UnregisterNever(map, client) == map

\* _close: delete the client from every set, delete every set left empty
Unregister(map, client) ==
    [t \in {u \in DOMAIN map : map[u] \ {client} # {}} |-> map[t] \ {client}]

----------------------------------------------------------------------------
(* The replay query engine *)

\* /^(\d+)([smhd])$/ : one or more digits, then one of the four lower-case units
duration_regex(s) ==
    /\ Len(s) >= 2
    /\ s[Len(s)] \in {"s", "m", "h", "d"}
    /\ DigitPrefix(SubSeq(s, 1, Len(s) - 1)) = SubSeq(s, 1, Len(s) - 1)

\* the switch on the unit: the seconds one unit stands for (0 when no case matches)
UnitSeconds(unit) ==
    IF unit \in {"s", "S"} THEN 1
    ELSE IF unit \in {"m", "M"} THEN 60
    ELSE IF unit \in {"h", "H"} THEN 3600
    ELSE IF unit \in {"d", "D"} THEN 3600 * 24
    ELSE 0

\* timestamp -= parseInt(num) * seconds, from Math.floor(Date.now() / 1000)
DurationBound(s, t) ==
    t - parseInt(SubSeq(s, 1, Len(s) - 1)).val * UnitSeconds(s[Len(s)])

\* a statement on table "messages": its rows, or SQLite's error when the table is absent
OnTable(exists, rows) ==
    IF exists THEN [ok |-> TRUE, rows |-> rows]
    ELSE [ok |-> FALSE, error |-> "no such table: messages"]

AllText == <<"a", "l", "l">>

\* a _query that tries the duration pattern before the two lengths
QueryDurationFirst(topic, since) ==
    IF ~since.set \/ since.value = <<>>
    THEN OnTable(tableExists, SelectTopic(messages, topic))
    ELSE IF since.value = AllText
    THEN OnTable(tableExists, SelectTopic(messages, topic))
    ELSE IF duration_regex(since.value)
    THEN OnTable(tableExists, SelectSinceTime(messages, topic, DurationBound(since.value, now)))
    ELSE IF Len(since.value) = 10
    THEN OnTable(tableExists, SelectSinceText(messages, topic, since.value))
    ELSE IF Len(since.value) = 12
    THEN OnTable(tableExists, SelectSinceId(messages, topic, since.value))
    ELSE [ok |-> TRUE, rows |-> <<>>]

\* _query(topic, since) on the current database at the current time
_query(topic, since) ==
    IF ~since.set \/ since.value = <<>>
    THEN OnTable(tableExists, SelectTopic(messages, topic))
    ELSE IF since.value = AllText
    THEN OnTable(tableExists, SelectTopic(messages, topic))
    ELSE IF Len(since.value) = 10
    THEN OnTable(tableExists, SelectSinceText(messages, topic, since.value))
    ELSE IF Len(since.value) = 12
    THEN OnTable(tableExists, SelectSinceId(messages, topic, since.value))
    ELSE IF duration_regex(since.value)
    THEN OnTable(tableExists, SelectSinceTime(messages, topic, DurationBound(since.value, now)))
    ELSE [ok |-> TRUE, rows |-> <<>>]

\* items.map(...): the records of the replay response
QueryRecords(rows) == [i \in 1..Len(rows) |-> QueryRecord(rows[i])]

----------------------------------------------------------------------------
(* The publish pipeline *)

\* a validation that tests the upper limit only
PriorityRejectedAboveOnly(priority) == JsGt(priority, Num(5))

\* if (priority < 1 || priority > 5)
PriorityRejected(priority) == JsLt(priority, Num(1)) \/ JsGt(priority, Num(5))

\* a body that is stored as it was sent, empty or not
ContentAsSent(body) == body

\* content || "triggered"
ContentOf(body) == IF body = "" THEN "triggered" ELSE body

\* parseInt(header || "3", 10)
PriorityOf(header) == parseInt(OrElse(header, <<"3">>))

\* the item _broadcast builds
ItemOf(id, time, topic, content, priority) ==
    [id |-> id, time |-> time, expires |-> time + timeout, event |-> "message",
     topic |-> topic, message |-> content, priority |-> priority]

\* a _save whose statement is INSERT OR REPLACE
SaveOrReplace(item) ==
    /\ tableExists' = TRUE
    /\ IF NotNullFails(item)
       THEN messages' = messages
       ELSE messages' = Append(SelectSeq(messages, LAMBDA r : r.id # item.id), RowOf(item))

\* _save: CREATE TABLE IF NOT EXISTS, then INSERT; the INSERT's failure is thrown
_save(item) ==
    /\ tableExists' = TRUE
    /\ IF InsertFails(messages, item)
       THEN messages' = messages
       ELSE messages' = Append(messages, RowOf(item))

\* server.send(data) without a callback: the data goes out on a socket that is
\* open; on one that has failed it is discarded and nothing is thrown
Sendable(h) == conn[h].state # "failed"

\* a forEach that a send on a failed socket ends with an exception
FanOutUntilFailure(topic, event) ==
    received' = [h \in DOMAIN received |->
                    IF h \in Subscribers(topic) /\ \A g \in Subscribers(topic) : Sendable(g)
                    THEN Append(received[h], event) ELSE received[h]]

\* the forEach over _sockets.get(topic): one send per registered handle
FanOut(topic, event) ==
    received' = [h \in DOMAIN received |->
                    IF h \in Subscribers(topic) /\ Sendable(h)
                    THEN Append(received[h], event) ELSE received[h]]

\* a _broadcast that sends to the subscribers before it saves
BroadcastSendFirst(r, topic, priority, content, bytes) ==
    LET time == now
        id == getRandomId(bytes)
        item == ItemOf(id, time, topic, content, priority)
    IN  /\ FanOut(topic, MessageEvent(id, time, topic, content, priority))
        /\ _save(item)
        /\ IF InsertFails(messages, item)
           THEN last' = [op |-> "publish", request |-> r, outcome |-> "fault",
                         error |-> "constraint failed", item |-> item]
           ELSE last' = [op |-> "publish", request |-> r, outcome |-> "ok", status |-> 200,
                         body |-> AckRecord(id, time, topic, content, priority)]

\* _broadcast for request r: build the item, _save it, fan out, answer 200;
\* when _save throws, nothing after it runs: no send, no answer, no second try
_broadcast(r, topic, priority, content, bytes) ==
    LET time == now
        id == getRandomId(bytes)
        item == ItemOf(id, time, topic, content, priority)
    IN  /\ _save(item)
        /\ IF InsertFails(messages, item)
           THEN /\ received' = received
                /\ last' = [op |-> "publish", request |-> r, outcome |-> "fault",
                            error |-> "constraint failed", item |-> item]
           ELSE /\ FanOut(topic, MessageEvent(id, time, topic, content, priority))
                /\ last' = [op |-> "publish", request |-> r, outcome |-> "ok", status |-> 200,
                            body |-> AckRecord(id, time, topic, content, priority)]

----------------------------------------------------------------------------
(* Inputs *)

\* seconds after T0 at which the clock is read
Elapsed == {0, 1, 7200, timeout, timeout + 1}

\* values of the X-Priority header: absent, empty, in range, out of range,
\* not a number, a number followed by text
PriorityHeaders ==
    {None, Some(<<>>), Some(<<"5">>), Some(<<"7">>), Some(<<"0">>), Some(<<"-", "1">>),
     Some(<<"a", "b", "c">>), Some(<<"4", "x">>)}

Bodies == {"", "disk full"}

RandomBytes == {Bytes0, Bytes62, BytesDur, BytesA}

\* rows an earlier run of the process left in the database file: one whose
\* retention has passed at T0, one still retained
OldRow ==
    [id |-> getRandomId(BytesA), time |-> T0 - timeout - 1, expires |-> T0 - 1,
     topic |-> "alerts", priority |-> 3, message |-> "old"]

KeptRow ==
    [id |-> getRandomId(BytesDur), time |-> T0 - 1, expires |-> T0 - 1 + timeout,
     topic |-> "ops", priority |-> 4, message |-> "kept"]

InitialTables == {<<OldRow, KeptRow>>}

----------------------------------------------------------------------------
(* The state machine *)

Init ==
    /\ pc = "boot"
    /\ now = T0
    /\ tableExists \in BOOLEAN
    /\ messages \in (IF tableExists THEN InitialTables ELSE {<<>>})
    /\ _sockets = <<>>
    /\ conn = [h \in Handles |-> [state |-> "new", topics |-> <<>>]]
    /\ received = [h \in Handles |-> <<>>]
    /\ pending = {}
    /\ accepted = 0
    /\ last = [op |-> "none"]

\* _remove_expired: DELETE on the table, SQLite's error when the table is absent
_remove_expired ==
    IF tableExists
    THEN /\ messages' = DeleteExpired(messages, now)
         /\ last' = [op |-> "sweep", outcome |-> "ok", at |-> now]
    ELSE /\ messages' = messages
         /\ last' = [op |-> "sweep", outcome |-> "fault", error |-> "no such table: messages"]

\* the module's top-level call of _remove_expired(): its exception is uncaught
\* and ends the process before any request is served
Boot ==
    /\ pc = "boot"
    /\ _remove_expired
    /\ pc' = IF tableExists THEN "serving" ELSE "crashed"
    /\ UNCHANGED <<now, tableExists, _sockets, conn, received, pending, accepted>>

\* the cron job
Sweep ==
    /\ pc = "serving"
    /\ _remove_expired
    /\ UNCHANGED <<pc, now, tableExists, _sockets, conn, received, pending, accepted>>

\* time passes: the clock reads T0 + d, later than it read before
Tick(d) ==
    /\ pc = "serving"
    /\ T0 + d > now
    /\ now' = T0 + d
    /\ UNCHANGED <<pc, tableExists, messages, _sockets, conn, received, pending, accepted, last>>

\* wss.on("connection"): register under every topic, send the open event
Subscribe(client, topics, bytes) ==
    /\ pc = "serving"
    /\ conn[client].state = "new"
    /\ _sockets' = Register(_sockets, topics, client)
    /\ received' = [received EXCEPT ![client] =
                        Append(@, OpenEvent(getRandomId(bytes), now, Join(topics)))]
    /\ conn' = [conn EXCEPT ![client] = [state |-> "open", topics |-> topics]]
    /\ last' = [op |-> "subscribe", client |-> client, topics |-> topics]
    /\ UNCHANGED <<pc, now, tableExists, messages, pending, accepted>>

\* the socket of a connected client fails (the peer is gone, the stream broke):
\* the handle stays registered until its "error" or "close" listener runs
Fail(client) ==
    /\ pc = "serving"
    /\ conn[client].state = "open"
    /\ conn' = [conn EXCEPT ![client].state = "failed"]
    /\ UNCHANGED <<pc, now, tableExists, messages, _sockets, received, pending, accepted, last>>

\* the "close" listener
Close(client) ==
    /\ pc = "serving"
    /\ conn[client].state \in {"open", "failed", "errored"}
    /\ _sockets' = Unregister(_sockets, client)
    /\ conn' = [conn EXCEPT ![client].state = "closed"]
    /\ last' = [op |-> "close", client |-> client, was |-> conn[client].state]
    /\ UNCHANGED <<pc, now, tableExists, messages, received, pending, accepted>>

\* the "error" listener
Error(client) ==
    /\ pc = "serving"
    /\ conn[client].state \in {"open", "failed"}
    /\ _sockets' = Unregister(_sockets, client)
    /\ conn' = [conn EXCEPT ![client].state = "errored"]
    /\ last' = [op |-> "error", client |-> client]
    /\ UNCHANGED <<pc, now, tableExists, messages, received, pending, accepted>>

\* _fetch, POST or PUT without a command, up to its await: the body is being
\* read, while fewer than limit other bodies are
PublishRequestAmong(limit, topics, header, body) ==
    /\ pc = "serving"
    /\ accepted < MaxPublishes
    /\ Cardinality(pending) < limit
    /\ accepted' = accepted + 1
    /\ pending' = pending \cup {[seq |-> accepted + 1, topics |-> topics,
                                 header |-> header, body |-> body]}
    /\ UNCHANGED <<pc, now, tableExists, messages, _sockets, conn, received, last>>

PublishRequest(topics, header, body) == PublishRequestAmong(MaxPending, topics, header, body)

\* _fetch after the await: the body has ended; validate the priority, then
\* _broadcast.  What _save throws leaves the async handler as a rejected promise
\* nobody handles: the request stays unanswered, and the runtime either reports
\* it and goes on or ends the process
PublishBodyEnd(r, bytes) ==
    /\ pc = "serving"
    /\ r \in pending
    /\ pending' = pending \ {r}
    /\ IF PriorityRejected(PriorityOf(r.header))
       THEN /\ last' = [op |-> "publish", request |-> r, outcome |-> "rejected",
                        status |-> 400, body |-> PriorityError]
            /\ UNCHANGED <<tableExists, messages, received>>
       ELSE _broadcast(r, r.topics[1], PriorityOf(r.header), ContentOf(r.body), bytes)
    /\ pc' \in (IF last'.outcome = "fault" THEN {"serving", "crashed"} ELSE {"serving"})
    /\ UNCHANGED <<now, _sockets, conn, accepted>>

\* _fetch, GET with command "json"
Query(topics, since) ==
    /\ pc = "serving"
    /\ LET items == _query(topics[1], since)
       IN  last' = IF items.ok
                   THEN [op |-> "query", topic |-> topics[1], since |-> since, at |-> now,
                         outcome |-> "ok", status |-> 200, body |-> QueryRecords(items.rows)]
                   ELSE [op |-> "query", topic |-> topics[1], since |-> since, at |-> now,
                         outcome |-> "fault", error |-> items.error]
    /\ UNCHANGED <<pc, now, tableExists, messages, _sockets, conn, received, pending, accepted>>

----------------------------------------------------------------------------
(* Specifications *)

\* values of the since parameter: absent, empty, "all", 10 characters (a time,
\* a duration look-alike), 12 characters (ids the generator can return, an id it
\* cannot, a duration look-alike), durations in both cases, unrecognised text
Since10Time == <<"1", "0", "0", "0", "0", "0", "7", "2", "0", "0">>
Since10Dur == <<"1", "2", "3", "4", "5", "6", "7", "8", "9", "s">>
Since12None == <<"z", "z", "z", "z", "z", "z", "z", "z", "z", "z", "z", "z">>
SinceDurations == {<<"2", "h">>, <<"1", "s">>, <<"1", "d">>, <<"1", "2", "0", "m">>}
SinceUpper == {<<"2", "H">>}
SinceOther == {<<"x", "y", "z">>, <<"h", "2">>}

Selectors ==
    {None, Some(<<>>), Some(AllText), Some(Since10Time), Some(Since10Dur), Some(Since12None)}
    \cup {Some(getRandomId(b)) : b \in RandomBytes}
    \cup {Some(s) : s \in SinceDurations \cup SinceUpper \cup SinceOther}

\* Spec: the registry and the fan-out.  Every handle, topic list and connection
\* event; publishes with a default, an explicit and a rejected priority.
FanoutHeaders == {None}

FanoutBytes == {Bytes0, BytesA}

FanoutElapsed == {0, timeout + 1}

\* the comma-separated topic list of a connection's request path, split
FanoutTopicLists == {<<"alerts">>, <<"alerts", "ops">>}

Next ==
    \/ Boot
    \/ Sweep
    \/ \E d \in FanoutElapsed : Tick(d)
    \/ \E c \in Handles, ts \in FanoutTopicLists : Subscribe(c, ts, Bytes0)
    \/ \E c \in Handles : Close(c)
    \/ \E c \in Handles : Error(c)
    \/ \E ts \in {<<"alerts">>, <<"ops">>}, h \in FanoutHeaders : PublishRequest(ts, h, "")
    \/ \E r \in pending, b \in FanoutBytes : PublishBodyEnd(r, b)

Spec == Init /\ [][Next]_vars

\* SpecPublish: what a publish stores and answers.  Default and explicit
\* priorities, both bodies, both topics, one subscriber, the unbounded replay
\* of what was stored.
PublishHeaders == {None, Some(<<"5">>)}

PublishElapsed == {0, timeout + 1}

NextPublish ==
    \/ Boot
    \/ Sweep
    \/ \E d \in PublishElapsed : Tick(d)
    \/ Subscribe("h1", <<"alerts", "ops">>, Bytes0)
    \/ \E ts \in {<<"alerts">>, <<"ops", "alerts">>}, h \in PublishHeaders, b \in Bodies :
           PublishRequest(ts, h, b)
    \/ \E r \in pending, b \in FanoutBytes : PublishBodyEnd(r, b)
    \/ \E ts \in {<<"alerts">>, <<"ops">>} : Query(ts, None)

SpecPublish == Init /\ [][NextPublish]_vars

\* SpecPriority: the priority validation.  Every header value, one subscriber.
NextPriority ==
    \/ Boot
    \/ Subscribe("h1", <<"alerts">>, Bytes0)
    \/ \E h \in PriorityHeaders : PublishRequest(<<"alerts">>, h, "")
    \/ \E r \in pending, b \in FanoutBytes : PublishBodyEnd(r, b)

SpecPriority == Init /\ [][NextPriority]_vars

\* SpecReplay: the replay query engine.  Every selector, on stores that
\* publishes, clock steps and sweeps produce; no subscriber.
ReplayBytes == {Bytes0, BytesDur, BytesA}

NextReplay ==
    \/ Boot
    \/ Sweep
    \/ \E d \in Elapsed : Tick(d)
    \/ \E ts \in {<<"alerts">>, <<"ops">>} : PublishRequest(ts, None, "")
    \/ \E r \in pending, b \in ReplayBytes : PublishBodyEnd(r, b)
    \/ \E s \in Selectors : Query(<<"alerts", "ops">>, s)

SpecReplay == Init /\ [][NextReplay]_vars

\* SpecOrder: the order of publishes.  Requests whose bodies are read at the
\* same time and end in either order; one subscriber.
OrderBodies == {"first", "second"}

NextOrder ==
    \/ Boot
    \/ \E d \in FanoutElapsed : Tick(d)
    \/ Subscribe("h1", <<"alerts">>, Bytes0)
    \/ \E ts \in {<<"alerts">>, <<"ops">>}, b \in OrderBodies :
           PublishRequestAmong(MaxReading, ts, None, b)
    \/ \E r \in pending, b \in FanoutBytes : PublishBodyEnd(r, b)

SpecOrder == Init /\ [][NextOrder]_vars

\* SpecConnect: the life of a connection.  Two handles; topic lists of one
\* topic, of two and with a topic repeated; sockets that fail before their
\* listener runs; publishes to both topics in between.
ConnectTopicLists == {<<"alerts">>, <<"ops", "alerts">>, <<"alerts", "alerts">>}

NextConnect ==
    \/ Boot
    \/ \E c \in Handles, ts \in ConnectTopicLists : Subscribe(c, ts, BytesDur)
    \/ \E c \in Handles : Fail(c)
    \/ \E c \in Handles : Close(c)
    \/ \E c \in Handles : Error(c)
    \/ \E ts \in {<<"alerts">>, <<"ops">>} : PublishRequest(ts, None, "")
    \/ \E r \in pending, b \in FanoutBytes : PublishBodyEnd(r, b)

SpecConnect == Init /\ [][NextConnect]_vars

\* SpecLifecycle: a row from its publish to its deletion.  Clock values at
\* and after the end of a retention, sweeps, unbounded replays of both topics,
\* and the handlers that have no business with the table: connection, close,
\* error, a publish that is rejected.
LifecycleElapsed == {timeout, timeout + 1}

LifecycleHeaders == {None, Some(<<"7">>)}

NextLifecycle ==
    \/ Boot
    \/ Sweep
    \/ \E d \in LifecycleElapsed : Tick(d)
    \/ Subscribe("h1", <<"alerts">>, Bytes0)
    \/ Close("h1")
    \/ Error("h1")
    \/ \E h \in LifecycleHeaders : PublishRequest(<<"alerts">>, h, "")
    \/ \E r \in pending, b \in FanoutBytes : PublishBodyEnd(r, b)
    \/ \E ts \in {<<"alerts">>, <<"ops">>}, s \in {None, Some(AllText)} : Query(ts, s)

SpecLifecycle == Init /\ [][NextLifecycle]_vars

----------------------------------------------------------------------------
(* Properties *)

\* the handle is connected and its topic list names the topic
RegisteredUnder(h, topic) ==
    /\ conn[h].state = "open"
    /\ \E i \in 1..Len(conn[h].topics) : conn[h].topics[i] = topic

\* the handle's topic list names the topic, and its close or error was handled
WasRegisteredUnder(h, topic) ==
    /\ conn[h].state \in {"errored", "closed"}
    /\ \E i \in 1..Len(conn[h].topics) : conn[h].topics[i] = topic

\* the step sent exactly one event to h, and it is e
SentOne(h, e) == received'[h] = Append(received[h], e)

\* the event carries the row's id, time, expires, topic and message
EventOfRow(e, row) ==
    /\ e.event = "message"
    /\ e.id = row.id /\ e.time = row.time /\ e.expires = row.expires
    /\ e.topic = row.topic /\ e.message = row.message

InTable(rows, e) == \E i \in 1..Len(rows) : EventOfRow(e, rows[i])

LastOf(seq) == seq[Len(seq)]

\* C1 (fan-out scoping): in a step that completes a publish to a topic, stored
\* and acknowledged, every handle that is open and subscribed to the topic is
\* sent exactly one event, a "message" event of that topic; every other handle
\* (subscribed to other topics only, closed, errored, not connected) is sent
\* nothing; a publish that is not stored sends nothing to any handle.
C1_FanoutScoping ==
    [][\A r \in pending \ pending' : \A h \in Handles :
          IF RegisteredUnder(h, r.topics[1]) /\ last'.outcome = "ok"
          THEN /\ SentOne(h, LastOf(received'[h]))
               /\ LastOf(received'[h]).event = "message"
               /\ LastOf(received'[h]).topic = r.topics[1]
          ELSE received'[h] = received[h]]_vars

\* a publish was just delivered to an open subscriber of its topic while another
\* handle, subscribed to that topic earlier and since closed or errored, and a
\* row of an earlier publish are there
C1_Witness ==
    /\ last.op = "publish" /\ last.outcome = "ok"
    /\ \E h \in Handles :
          /\ RegisteredUnder(h, last.body.topic)
          /\ LastOf(received[h]) = last.body
    /\ \E h \in Handles :
          /\ WasRegisteredUnder(h, last.body.topic)
          /\ \A i \in 1..Len(received[h]) : received[h][i] # last.body
    /\ Len(messages) >= 2

\* every "message" event a handle holds has its row in the table, unless its
\* retention has passed (only then can a sweep have deleted the row)
C2_SentWasStored ==
    \A h \in Handles : \A i \in 1..Len(received[h]) :
        received[h][i].event = "message" =>
            InTable(messages, received[h][i]) \/ received[h][i].expires < now

\* in one step: every "message" event sent and every acknowledgment returned is
\* of a row this step appended; a completed publish that is acknowledged has
\* appended exactly its row, subscribers or none
C2_SendAfterAppend ==
    /\ \A h \in Handles :
          (received'[h] # received[h] /\ LastOf(received'[h]).event = "message") =>
              /\ messages' = Append(messages, LastOf(messages'))
              /\ EventOfRow(LastOf(received'[h]), LastOf(messages'))
    /\ \A r \in pending \ pending' :
          last'.outcome = "ok" =>
              /\ messages' = Append(messages, LastOf(messages'))
              /\ EventOfRow(last'.body, LastOf(messages'))
              /\ LastOf(messages').topic = r.topics[1]

\* C2 (fan-out only after persistence): every "message" event sent to a handle
\* and every publish acknowledgment is of a row appended to the table in the
\* same step, before the send; the row is then in the table until a sweep
\* deletes it after its retention; a publish to a topic without subscribers
\* appends its row all the same.
C2_FanoutAfterPersistence == []C2_SentWasStored /\ [][C2_SendAfterAppend]_vars

\* a publish to a topic nobody is subscribed to was stored and acknowledged, and
\* another publish failed on its id while a subscriber of its topic was connected
C2_Witness ==
    /\ last.op = "publish" /\ last.outcome = "fault"
    /\ \E h \in Handles : RegisteredUnder(h, last.item.topic)
    /\ \E i \in 1..Len(messages) :
          /\ messages[i].id = last.item.id
          /\ messages[i].time >= T0
          /\ \A h \in Handles : \A k \in 1..Len(received[h]) :
                ~EventOfRow(received[h][k], messages[i])

\* the header, read as a decimal integer, is a number outside 1..5
OutOfRange(header) ==
    /\ header.set
    /\ ~parseInt(header.value).nan
    /\ parseInt(header.value).val \notin 1..5

\* C3 (priority rejection): the step that completes a publish whose priority
\* is an integer outside 1..5 answers 400 with code 40007, http 400 and error
\* "invalid priority parameter", and leaves the table and every handle's
\* received events as they were.
C3_PriorityRejection ==
    [][\A r \in pending \ pending' :
          OutOfRange(r.header) =>
              /\ last'.op = "publish" /\ last'.request = r
              /\ last'.outcome = "rejected" /\ last'.status = 400
              /\ last'.body.code = 40007 /\ last'.body.http = 400
              /\ last'.body.error = "invalid priority parameter"
              /\ messages' = messages
              /\ tableExists' = tableExists
              /\ received' = received]_vars

\* a publish with priority 0 was rejected while the table held a row and a
\* subscriber of the topic was connected
C3_Witness ==
    /\ last.op = "publish" /\ last.outcome = "rejected"
    /\ last.request.header = Some(<<"0">>)
    /\ messages # <<>>
    /\ RegisteredUnder("h1", last.request.topics[1])

\* the step is a sweep that ran its DELETE (a sweep repeated in the same second
\* on the same table is a step that changes nothing)
SweepStep == last' # last /\ last'.op = "sweep" /\ last'.outcome = "ok"

KeptAt(row, t) == row.expires >= t

\* C4 (retention correctness): after a sweep at time now every row left has
\* expires >= now, every row that had expires < now is gone, and the rows with
\* expires >= now, expires = now included, are the table, unchanged and in
\* their order.
C4_Retention ==
    [][SweepStep =>
          /\ \A i \in 1..Len(messages') : messages'[i].expires >= now
          /\ \A i \in 1..Len(messages) :
                messages[i].expires < now =>
                    \A k \in 1..Len(messages') : messages'[k] # messages[i]
          /\ messages' = SelectSeq(messages, LAMBDA row : KeptAt(row, now))]_vars

\* a sweep just ran at a time at which one row expires exactly and is still
\* there, after the row left by the earlier run had expired and was deleted
C4_Witness ==
    /\ pc = "serving" /\ last.op = "sweep" /\ last.outcome = "ok" /\ last.at = now
    /\ \E i \in 1..Len(messages) : messages[i].expires = now
    /\ now > KeptRow.expires
    /\ \A i \in 1..Len(messages) : messages[i].id # KeptRow.id

\* C5 (uniqueness): no two rows of the table have the same id and topic,
\* whatever ids the generator returns.
C5_Uniqueness ==
    \A i, k \in 1..Len(messages) :
        (messages[i].id = messages[k].id /\ messages[i].topic = messages[k].topic) => i = k

\* the generator returned an id a second time, for the topic that already has
\* it: the publish failed and the table still holds the first row and another
C5_Witness ==
    /\ last.op = "publish" /\ last.outcome = "fault"
    /\ ~last.item.priority.nan
    /\ \E i \in 1..Len(messages) :
          messages[i].id = last.item.id /\ messages[i].topic = last.item.topic
    /\ Len(messages) >= 2

\* the record has a priority field exactly when the row's priority is not 3,
\* and the field is the row's priority
PriorityLaw(rec, row) ==
    /\ ("priority" \in DOMAIN rec) <=> (row.priority # 3)
    /\ ("priority" \in DOMAIN rec) => (rec.priority = row.priority)

\* the record is the wire form of some row of the table
WireOfSomeRow(rec) ==
    \E i \in 1..Len(messages) : EventOfRow(rec, messages[i]) /\ PriorityLaw(rec, messages[i])

\* C6 (priority default omission): the replay record of every stored row, every
\* record a replay query returned, the acknowledgment of a publish and the live
\* event of that publish carry a priority field if and only if the stored
\* priority is not 3, with the stored value; the live event is the very record
\* of the acknowledgment, and both have the id, time, expires, topic and message
\* of the row and of its replay record.
C6_PriorityOmission ==
    /\ \A i \in 1..Len(messages) :
          /\ PriorityLaw(QueryRecord(messages[i]), messages[i])
          /\ EventOfRow(QueryRecord(messages[i]), messages[i])
    /\ (last.op = "query" /\ last.outcome = "ok") =>
          \A k \in 1..Len(last.body) : WireOfSomeRow(last.body[k])
    /\ (last.op = "publish" /\ last.outcome = "ok") =>
          /\ WireOfSomeRow(last.body)
          /\ ("priority" \in DOMAIN last.body) <=> (PriorityOf(last.request.header).val # 3)
          /\ \A h \in Handles :
                RegisteredUnder(h, last.body.topic) => LastOf(received[h]) = last.body
    /\ \A h \in Handles : \A i \in 1..Len(received[h]) :
          received[h][i].event = "message" =>
              \A k \in 1..Len(messages) :
                  EventOfRow(received[h][i], messages[k]) =>
                      PriorityLaw(received[h][i], messages[k])

\* a publish with priority 5 was just acknowledged and delivered live, with the
\* field, to a subscriber that also holds an event without the field for a row
\* of priority 3 that is still stored
C6_Witness ==
    /\ last.op = "publish" /\ last.outcome = "ok"
    /\ "priority" \in DOMAIN last.body /\ last.body.priority = 5
    /\ RegisteredUnder("h1", last.body.topic)
    /\ LastOf(received["h1"]) = last.body
    /\ \E i \in 1..Len(received["h1"]) : \E k \in 1..Len(messages) :
          /\ received["h1"][i].event = "message"
          /\ "priority" \notin DOMAIN received["h1"][i]
          /\ EventOfRow(received["h1"][i], messages[k])
          /\ messages[k].priority = 3

\* the replay records of the topic's rows that satisfy P, in table order
Replay(topic, P(_)) ==
    QueryRecords(SelectSeq(messages, LAMBDA row : row.topic = topic /\ P(row)))

AllDigits(s) == s # <<>> /\ \A i \in 1..Len(s) : IsDigit(s[i])

HasLetter(s) == \E i \in 1..Len(s) : ~IsDigit(s[i]) /\ s[i] \notin {"-", "+", " "}

\* <digits><unit>, the unit one of s, m, h, d in lower case
LowerDuration(s) ==
    Len(s) >= 2 /\ AllDigits(SubSeq(s, 1, Len(s) - 1)) /\ s[Len(s)] \in {"s", "m", "h", "d"}

\* <digits><unit>, the unit in either case
AnyCaseDuration(s) ==
    /\ Len(s) >= 2 /\ AllDigits(SubSeq(s, 1, Len(s) - 1))
    /\ s[Len(s)] \in {"s", "m", "h", "d", "S", "M", "H", "D"}

SecondsOf(unit) ==
    CASE unit \in {"s", "S"} -> 1
      [] unit \in {"m", "M"} -> 60
      [] unit \in {"h", "H"} -> 3600
      [] unit \in {"d", "D"} -> 86400

\* the time of the stored row with this id, as a set: empty when there is none
TimesOfId(id) == {messages[i].time : i \in {k \in 1..Len(messages) : messages[k].id = id}}

\* a replay query was just answered: the table and the clock are as it saw them
Answered == last.op = "query" /\ last.at = now

\* C7 (replay selector precedence): a replay query is answered from the first
\* rule that matches, in the order: absent, empty or "all" -> every row of the
\* topic; 10 characters -> the rows at or after that time (none when the text
\* is no number), also when the text matches the duration pattern; 12
\* characters -> the rows at or after the time of the row with that id (none
\* when no row has it), also when the text matches the duration pattern or is
\* a number; <digits><s|m|h|d> -> the rows at or after now minus the duration;
\* a text that matches no rule -> no row.  (Units in upper case are C8's.)
C7_Precedence ==
    Answered =>
        /\ last.outcome = "ok"
        /\ LET s == last.since.value
               t == last.topic
           IN  IF ~last.since.set \/ s = <<>> \/ s = <<"a", "l", "l">>
               THEN last.body = Replay(t, LAMBDA row : TRUE)
               ELSE IF Len(s) = 10
               THEN /\ AllDigits(s) =>
                          last.body = Replay(t, LAMBDA row : row.time >= DecimalValue(s))
                    /\ HasLetter(s) => last.body = <<>>
               ELSE IF Len(s) = 12
               THEN last.body =
                        Replay(t, LAMBDA row : \E m \in TimesOfId(s) : row.time >= m)
               ELSE IF LowerDuration(s)
               THEN last.body =
                        Replay(t, LAMBDA row :
                            row.time >= now - DecimalValue(SubSeq(s, 1, Len(s) - 1))
                                              * SecondsOf(s[Len(s)]))
               ELSE IF ~AnyCaseDuration(s)
               THEN last.body = <<>>
               ELSE TRUE

\* the 10-character selector 123456789s, which is also a duration, was
\* answered as a time that is no number: no row, though the topic has rows,
\* all of them within that duration
C7_Witness ==
    /\ Answered /\ last.outcome = "ok"
    /\ last.since = Some(Since10Dur)
    /\ LowerDuration(last.since.value)
    /\ last.body = <<>>
    /\ Replay(last.topic, LAMBDA row : row.time >= now - 123456789) # <<>>

\* C8 (relative-duration replay): a replay query whose since is <positive
\* integer><unit>, the unit one of s, m, h, d in either case, and whose length
\* is neither 10 nor 12, returns exactly the rows of the topic with
\* time >= now - number * unit_seconds (1, 60, 3600, 86400).
C8_RelativeDuration ==
    (/\ Answered
     /\ last.since.set
     /\ AnyCaseDuration(last.since.value)
     /\ Len(last.since.value) \notin {10, 12}
     /\ DecimalValue(SubSeq(last.since.value, 1, Len(last.since.value) - 1)) > 0) =>
        /\ last.outcome = "ok"
        /\ LET s == last.since.value
           IN  last.body =
                   Replay(last.topic, LAMBDA row :
                       row.time >= now - DecimalValue(SubSeq(s, 1, Len(s) - 1))
                                         * SecondsOf(s[Len(s)]))

\* the indices of the stored rows with this id
RowsWithId(id) == {i \in 1..Len(messages) : messages[i].id = id}

\* the record is in the sequence
Among(rec, seq) == \E k \in 1..Len(seq) : seq[k] = rec

\* C9 (replay by message id): a replay query of topic T whose since has 12
\* characters returns, when a stored row M has that id, exactly the rows of T
\* with time >= M.time: M itself when M is of T, no row of an earlier time, no
\* row of another topic, also when M is of another topic; when no stored row
\* has that id it returns no row; in both cases without an error.
C9_ReplayById ==
    (last.op = "query" /\ last.since.set /\ Len(last.since.value) = 12) =>
        /\ last.outcome = "ok"
        /\ \A k \in 1..Len(last.body) : last.body[k].topic = last.topic
        /\ \A i \in RowsWithId(last.since.value) :
              /\ last.body = Replay(last.topic, LAMBDA row : row.time >= messages[i].time)
              /\ messages[i].topic = last.topic => Among(QueryRecord(messages[i]), last.body)
              /\ \A k \in 1..Len(last.body) : last.body[k].time >= messages[i].time
        /\ RowsWithId(last.since.value) = {} => last.body = <<>>

\* topic alerts was just replayed from the id of its stored row M: the answer
\* holds M and leaves out a row of alerts published before M; a row of topic
\* ops is stored too
C9_Witness ==
    /\ last.op = "query" /\ last.outcome = "ok" /\ last.since.set
    /\ \E i \in RowsWithId(last.since.value) :
          /\ messages[i].topic = last.topic
          /\ Among(QueryRecord(messages[i]), last.body)
          /\ \E k \in 1..Len(messages) :
                /\ messages[k].topic = last.topic
                /\ messages[k].time < messages[i].time
                /\ ~Among(QueryRecord(messages[k]), last.body)
    /\ \E k \in 1..Len(messages) : messages[k].topic # last.topic

\* one selector of every valid form: absent, "all", a 10-character time, a
\* 12-character id, a duration
ValidSelectors ==
    {None, Some(AllText), Some(Since10Time), Some(Since12None), Some(<<"2", "h">>)}

\* C10 (idempotent empty replay): in every reachable state of the database in
\* which a topic has no stored row, the state of a new database file whose
\* table "messages" does not exist yet included, a replay query of that topic
\* with a selector of any valid form returns the empty sequence and no error.
C10_EmptyReplay ==
    \A t \in Topics : \A s \in ValidSelectors :
        SelectTopic(messages, t) = <<>> => _query(t, s) = [ok |-> TRUE, rows |-> <<>>]

\* the rows of the topic that were appended since the process started
RowsSinceStart(topic) ==
    {i \in 1..Len(messages) : messages[i].topic = topic /\ messages[i].time >= T0}

\* C11 (per-topic publish ordering): of two publishes to one topic the one
\* accepted first is appended and fanned out first, however their body reads
\* end.  Hence when the n-th accepted request has just been appended, the rows
\* of its topic appended since the start are its own and rows of requests
\* accepted before it: at most n.
C11_PublishOrdering ==
    (last.op = "publish" /\ last.outcome = "ok") =>
        Cardinality(RowsSinceStart(last.body.topic)) <= last.request.seq

\* the topics of the handle's request path
ListedTopics(h) == {conn[h].topics[i] : i \in 1..Len(conn[h].topics)}

\* the handle is connected and no close or error of it was handled yet
Connected(h) == conn[h].state \in {"open", "failed"}

\* no handle whose close or error was handled is in a topic set; no topic set
\* is empty; the keys are the topics some connected handle listed
C12_Registry ==
    /\ \A h \in Handles : conn[h].state \in {"errored", "closed"} =>
          \A t \in DOMAIN _sockets : h \notin _sockets[t]
    /\ \A t \in DOMAIN _sockets : _sockets[t] # {}
    /\ DOMAIN _sockets = UNION {ListedTopics(h) : h \in {g \in Handles : Connected(g)}}
    /\ \A t \in DOMAIN _sockets :
          _sockets[t] = {h \in Handles : Connected(h) /\ t \in ListedTopics(h)}

\* the close notification of a handle whose error was handled changes no set
C12_SecondNotification ==
    \A h \in Handles :
        (conn[h].state = "errored" /\ conn'[h].state = "closed") => _sockets' = _sockets

\* C12 (unsubscribe and registry garbage collection): after a handle's close or
\* error notification the handle is in no topic set; in every state no topic
\* set of the registry is empty, a topic being a key exactly while a connected
\* handle listed it; a close notification after the error notification of the
\* same handle leaves the registry as it is.
C12_Unsubscribe == []C12_Registry /\ [][C12_SecondNotification]_vars

\* the close of a handle was just handled after its error had been: its topic
\* ops is no key any more, and alerts still is, for the other handle alone
C12_Witness ==
    /\ last.op = "close" /\ last.was = "errored"
    /\ conn[last.client].topics = <<"ops", "alerts">>
    /\ DOMAIN _sockets = {"alerts"}
    /\ _sockets["alerts"] = Handles \ {last.client}

\* the step is the connection of handle c
Connects(c) == conn[c].state = "new" /\ conn'[c].state = "open"

\* the topic lists of the connections, joined with commas
CommaJoined(ts) ==
    CASE ts = <<"alerts">> -> "alerts"
      [] ts = <<"ops", "alerts">> -> "ops,alerts"
      [] ts = <<"alerts", "alerts">> -> "alerts,alerts"
      [] ts = <<"alerts", "ops">> -> "alerts,ops"

\* C13 (subscribe): the connection of a handle with a topic list registers the
\* handle under every topic of the list and under no other, creating the sets
\* that are absent and touching no other handle's membership (a topic listed
\* twice registers once); it sends exactly one event, to that handle alone:
\* an "open" event whose topic is the list joined with commas, as it was
\* given; the table is unchanged.
C13_Subscribe ==
    [][\A c \in Handles : Connects(c) =>
          /\ DOMAIN _sockets' = DOMAIN _sockets \cup ListedTopics(c)'
          /\ \A t \in DOMAIN _sockets' :
                _sockets'[t] = Subscribers(t) \cup (IF t \in ListedTopics(c)' THEN {c} ELSE {})
          /\ Len(received'[c]) = Len(received[c]) + 1
          /\ SentOne(c, LastOf(received'[c]))
          /\ LastOf(received'[c]).event = "open"
          /\ LastOf(received'[c]).topic = CommaJoined(conn'[c].topics)
          /\ \A h \in Handles \ {c} : received'[h] = received[h]
          /\ messages' = messages /\ tableExists' = tableExists]_vars

\* a handle just connected with the list alerts,alerts: it is in the set of
\* alerts once, next to the handle that connected before with ops,alerts and
\* holds a message since; the new handle holds its open event and nothing else
C13_Witness ==
    /\ last.op = "subscribe" /\ last.topics = <<"alerts", "alerts">>
    /\ Len(received[last.client]) = 1
    /\ received[last.client][1].event = "open"
    /\ received[last.client][1].topic = "alerts,alerts"
    /\ _sockets["alerts"] = Handles
    /\ "ops" \in DOMAIN _sockets /\ _sockets["ops"] = Handles \ {last.client}
    /\ \E h \in Handles \ {last.client} : Len(received[h]) = 2
    /\ Len(messages) >= 2

\* the handle is registered under the topic and its socket has failed, its
\* close or error notification not handled yet
FailedUnder(h, topic) == conn[h].state = "failed" /\ h \in Subscribers(topic)

\* C18 (containment of delivery failure): when a publish is appended while a
\* handle registered under its topic has failed and its notification is still
\* to come, every open handle subscribed to the topic is sent the message
\* event all the same, the publisher is answered 200 with the message, the row
\* is in the table and the process goes on serving.
C18_DeliveryFailure ==
    [][\A r \in pending \ pending' :
          (/\ \E h \in Handles : FailedUnder(h, r.topics[1])
           /\ Len(messages') = Len(messages) + 1) =>
              /\ last'.op = "publish" /\ last'.request = r
              /\ last'.outcome = "ok" /\ last'.status = 200
              /\ EventOfRow(last'.body, LastOf(messages'))
              /\ \A g \in Handles :
                    RegisteredUnder(g, r.topics[1]) => SentOne(g, last'.body)
              /\ pc' = "serving"]_vars

\* a publish to alerts was just acknowledged and delivered to the open
\* subscriber while the other handle, registered under alerts, had failed and
\* is still in the registry; the row is stored
C18_Witness ==
    /\ last.op = "publish" /\ last.outcome = "ok"
    /\ \E h \in Handles : \E g \in Handles \ {h} :
          /\ FailedUnder(h, last.body.topic)
          /\ \A i \in 1..Len(received[h]) : received[h][i] # last.body
          /\ RegisteredUnder(g, last.body.topic)
          /\ LastOf(received[g]) = last.body
    /\ InTable(messages, last.body)

\* a handle that is not connected yet holds no event; the first event a handle
\* holds is its "open" event and every later one is a "message" event of a
\* topic it listed
C20_OpenFirst ==
    \A h \in Handles :
        /\ conn[h].state = "new" => received[h] = <<>>
        /\ conn[h].state # "new" =>
              /\ received[h] # <<>>
              /\ received[h][1].event = "open"
              /\ \A i \in 2..Len(received[h]) :
                    /\ received[h][i].event = "message"
                    /\ received[h][i].topic \in ListedTopics(h)

\* a handle is sent an event only by its own connection or by the completion
\* of a publish while it is registered and open; once its close or error was
\* handled it is sent nothing
C20_OnlyWhileRegistered ==
    \A h \in Handles :
        received'[h] # received[h] =>
            \/ Connects(h)
            \/ /\ conn[h].state = "open" /\ conn'[h].state = "open"
               /\ \E r \in pending \ pending' : RegisteredUnder(h, r.topics[1])
               /\ SentOne(h, last'.body)

\* C20 (open precedes messages): the first event of every handle is its "open"
\* event and no "message" event comes before it, however connections and
\* publishes interleave; a handle is sent "message" events only by publishes
\* completed after its registration and before its close or error was handled.
C20_OpenPrecedesMessages == []C20_OpenFirst /\ [][C20_OnlyWhileRegistered]_vars

\* a publish was just delivered to a handle that connected after an earlier
\* publish to the same topic: it holds its open event and this message only,
\* while the other handle, closed in between, holds the earlier message only
C20_Witness ==
    /\ last.op = "publish" /\ last.outcome = "ok"
    /\ \E h \in Handles : \E g \in Handles \ {h} :
          /\ RegisteredUnder(h, last.body.topic)
          /\ Len(received[h]) = 2 /\ received[h][2] = last.body
          /\ conn[g].state \in {"closed", "errored"}
          /\ Len(received[g]) = 2
          /\ received[g][2].topic = last.body.topic
          /\ received[g][2] # last.body

\* the row is in the sequence
RowAmong(row, rows) == \E k \in 1..Len(rows) : rows[k] = row

\* every row has expires = time + 43200
C14_Expires == \A i \in 1..Len(messages) : messages[i].expires = messages[i].time + 43200

\* a step that completes a publish and is acknowledged has appended one row:
\* its time is the clock's, its topic the first of the path, its message the
\* body or "triggered" when the body is empty, its priority the header's or 3
\* when there is none; and in every step the rows that stay are the old rows,
\* field by field and in their order
C14_Construction ==
    /\ \A r \in pending \ pending' :
          last'.outcome = "ok" =>
              /\ messages' = Append(messages, LastOf(messages'))
              /\ LastOf(messages').time = now
              /\ LastOf(messages').expires = now + 43200
              /\ LastOf(messages').topic = r.topics[1]
              /\ LastOf(messages').message = (IF r.body = "" THEN "triggered" ELSE r.body)
              /\ LastOf(messages').priority =
                    (IF r.header.set THEN DecimalValue(r.header.value) ELSE 3)
    /\ \A i \in 1..Len(messages') :
          RowAmong(messages'[i], messages) \/ (i = Len(messages') /\ messages'[i].time = now)
    /\ \E n \in 0..Len(messages) :
          SelectSeq(messages, LAMBDA row : RowAmong(row, messages')) =
              SubSeq(messages', 1, n)

\* C14 (publish record construction): every row of the table has
\* expires = time + 43200 in every state; the row a publish appends has the
\* clock value of the publish as its time, the published body, or "triggered"
\* for an empty body, as its message, and the supplied priority, or 3 when
\* none was supplied; no step changes a field of a row that is in the table.
C14_RecordConstruction == []C14_Expires /\ [][C14_Construction]_vars

\* a publish with priority 5 and an empty body was just stored as "triggered",
\* later than T0, next to a row stored before with its body and priority 3
C14_Witness ==
    /\ last.op = "publish" /\ last.outcome = "ok"
    /\ last.request.body = "" /\ last.request.header = Some(<<"5">>)
    /\ LastOf(messages).message = "triggered" /\ LastOf(messages).priority = 5
    /\ LastOf(messages).time > T0
    /\ \E i \in 1..Len(messages) :
          /\ messages[i].message = "disk full" /\ messages[i].priority = 3
          /\ messages[i].time < LastOf(messages).time

\* the table is in ascending time order: rows are appended with the clock's
\* value and the clock does not go back
C15_TableAscending ==
    \A i, k \in 1..Len(messages) : i < k => messages[i].time <= messages[k].time

\* C15 (replay ordering): for every selector, on every table that publishes,
\* clock steps and sweeps produce, the records a replay query returns are in
\* ascending time order, and that is the order in which their rows were
\* appended: the answer is the table's own sequence of the rows it holds.
C15_ReplayOrdering ==
    /\ C15_TableAscending
    /\ (last.op = "query" /\ last.outcome = "ok") =>
          /\ \A a, b \in 1..Len(last.body) : a < b => last.body[a].time <= last.body[b].time
          /\ last.body = Replay(last.topic, LAMBDA row : Among(QueryRecord(row), last.body))

\* a replay by duration just returned two rows of different times, the older
\* first, from a table a sweep has deleted from and that holds a row of the
\* other topic before them
C15_Witness ==
    /\ last.op = "query" /\ last.outcome = "ok"
    /\ last.since.set /\ LowerDuration(last.since.value)
    /\ Len(last.body) = 2
    /\ last.body[1].time < last.body[2].time
    /\ ~RowAmong(OldRow, messages)
    /\ messages[1].topic # last.topic

\* an unbounded replay returns every row of the topic that is in the table,
\* whatever its expires
C16_Visible ==
    (/\ last.op = "query" /\ last.outcome = "ok"
     /\ (~last.since.set \/ last.since.value \in {<<>>, <<"a", "l", "l">>})) =>
        /\ Len(last.body) =
               Cardinality({i \in 1..Len(messages) : messages[i].topic = last.topic})
        /\ \A i \in 1..Len(messages) :
               messages[i].topic = last.topic => Among(QueryRecord(messages[i]), last.body)

\* a sweep takes out rows with expires < now only; every other step leaves
\* the table as it is or, being a publish that is acknowledged, appends one
\* row to it; a row that enters the table has not expired, so it is none of
\* the rows a sweep took out before
C16_OnlySweepRemoves ==
    /\ IF SweepStep
       THEN /\ \A i \in 1..Len(messages) :
                  RowAmong(messages[i], messages') \/ messages[i].expires < now
            /\ \A i \in 1..Len(messages') : RowAmong(messages'[i], messages)
       ELSE \/ messages' = messages
            \/ /\ \E r \in pending \ pending' : last'.outcome = "ok"
               /\ messages' = Append(messages, LastOf(messages'))
    /\ \A i \in 1..Len(messages') :
          RowAmong(messages'[i], messages) \/ messages'[i].expires >= now'

\* C16 (message lifecycle): a row that was appended is in the table, and is
\* returned by every unbounded (absent, empty or "all" since) replay of its
\* topic, also after its expires has passed, until a sweep runs at a time
\* with expires < now; that sweep deletes it and it never comes back.  Only
\* the sweep removes rows: replays, connections, close and error, and rejected
\* publishes leave the table unchanged, an acknowledged publish appends one row.
C16_Lifecycle == []C16_Visible /\ [][C16_OnlySweepRemoves]_vars

\* an unbounded replay just returned a row whose expires has passed and that
\* no sweep has met since, after a sweep had deleted the row of the other
\* topic at the end of its retention
C16_Witness ==
    /\ last.op = "query" /\ last.outcome = "ok" /\ last.at = now
    /\ \E k \in 1..Len(last.body) : last.body[k].expires < now
    /\ ~RowAmong(KeptRow, messages)
    /\ conn["h1"].state = "closed"

\* the step ran _broadcast with an id some row of the table has
IdCollides ==
    /\ last'.op = "publish" /\ last'.outcome \in {"ok", "fault"}
    /\ LET id == IF last'.outcome = "ok" THEN last'.body.id ELSE last'.item.id
       IN  \E i \in 1..Len(messages) : messages[i].id = id

\* C17 (constraint violation on append): when the id generated for a publish
\* is the id of a row in the table, of the same topic or of another, the
\* publish fails as a fault: the table is unchanged, no handle is sent an
\* event, the request gets no acknowledgment, and the request is done with,
\* no new attempt with another id being made.
C17_ConstraintViolation ==
    [][\A r \in pending \ pending' :
          IdCollides =>
              /\ last'.outcome = "fault" /\ last'.request = r
              /\ "status" \notin DOMAIN last' /\ "body" \notin DOMAIN last'
              /\ messages' = messages
              /\ received' = received
              /\ pending' = pending \ {r}
              /\ accepted' = accepted]_vars

\* a publish to alerts just failed on an id that a row of topic ops has, while
\* a subscriber of alerts was connected: the row of ops is there as it was and
\* the subscriber holds no event with that id
C17_Witness ==
    /\ last.op = "publish" /\ last.outcome = "fault"
    /\ last.item.topic = "alerts"
    /\ RegisteredUnder("h1", "alerts")
    /\ \A i \in 1..Len(received["h1"]) : received["h1"][i].id # last.item.id
    /\ \E i \in 1..Len(messages) :
          messages[i].id = last.item.id /\ messages[i].topic = "ops"
    /\ \A i \in 1..Len(messages) : messages[i].id = last.item.id => messages[i].topic = "ops"
    /\ pending = {}

\* every row has an integer priority in 1..5
C19_RowsInRange == \A i \in 1..Len(messages) : messages[i].priority \in 1..5

\* a publish whose id is new is either rejected, with the 400 answer and the
\* table as it was, or appended with a priority in 1..5
C19_RejectedOrInRange ==
    \A r \in pending \ pending' :
        ~IdCollides =>
            \/ /\ last'.outcome = "rejected" /\ last'.status = 400
               /\ messages' = messages
            \/ /\ last'.outcome = "ok"
               /\ messages' = Append(messages, LastOf(messages'))
               /\ LastOf(messages').priority \in 1..5

\* C19 (stored priority range): for every value of the priority header
\* (absent, empty, an integer in 1..5, an integer outside 1..5, a text that is
\* no number, a number followed by text) the publish is either rejected with
\* nothing written or appends a row whose priority is an integer in 1..5; no
\* state of the table holds a row with a priority outside 1..5 or no number.
C19_StoredPriorityRange == []C19_RowsInRange /\ [][C19_RejectedOrInRange]_vars

====
